---- MODULE Spec2Model ----
(***************************************************************************)
(* mtop (src/src/main.rs): the metrics acquisition and aggregation         *)
(* pipeline.  A producer thread (collect_metrics) reads the lines of the   *)
(* powermetrics subprocess, parses them into three long-lived records,     *)
(* appends to the rolling 120-second series and sends a clone of each      *)
(* record on its own unbounded channel.  The main thread (main) polls the  *)
(* keyboard, drains the three channels, and renders when something arrived *)
(* or the 500 ms throttler fires.                                          *)
(*                                                                         *)
(* Units.  Instants and durations are integers in milliseconds.  f64       *)
(* percentages are fixed-point hundredths of a percent (42.50% = 4250),    *)
(* i32 percentages and MHz are plain integers, powers are milliwatts       *)
(* (the f64 watts field w is stored as 1000*w).                            *)
(***************************************************************************)
EXTENDS Integers, Sequences, FiniteSets, TLC

\* ------------------------------------------------------------------ bounds
\* Items (Ok(line) or Err) the line iterator yields before the model stops
\* taking more.
MaxLines == 2
\* Clock advances of the pipeline model.
MaxTicks == 2
\* Clock advances of the rolling-window model.
MaxWTicks == 3
\* Entries ever pushed in the rolling-window model.
MaxPushes == 3
\* Renders of the pipeline model whose memory query fails.
MaxQueryFailures == 1
\* Lines processed in the line-parsing model.
MaxPLines == 3
\* Largest amount (in units of memory) an external memory query answers.
MaxMem == 3

\* ------------------------------------------------------- program constants
\* Duration::from_millis(500), the throttler's grace period.
GracePeriod == 500
\* Duration::from_secs(120), the retention window of retain_recent.
Retention == 120000
\* The ANE ceiling of 8 W in (ane_w * 100.0 / 8.0), in milliwatts.
AneCeiling == 8000
\* Upper clamp bound 100.0 (percent), in hundredths of a percent.
ClampMax == 10000

\* Amounts by which the clock is observed to advance between two steps:
\* half a grace period, and exactly one retention window.
Delays == {250, 120000}

\* ------------------------------------------------------------ Option<T>
None == [some |-> FALSE]
Some(x) == [some |-> TRUE, val |-> x]

\* ------------------------------------------------------------- records
CPUMetricsNew ==
  [ e_cluster_active |-> 0, e_cluster_freq_mhz |-> 0,
    p_cluster_active |-> 0, p_cluster_freq_mhz |-> 0,
    ane_w |-> 0, cpu_w |-> 0, gpu_w |-> 0, package_w |-> 0,
    e_cluster_active_history |-> << >>,
    p_cluster_active_history |-> << >>,
    ane_w_history |-> << >> ]

GPUMetricsNew == [ freq_mhz |-> 0, active |-> 0, active_history |-> << >> ]

NetDiskMetricsNew ==
  [ out_packets_per_sec |-> 0, out_bytes_per_sec |-> 0,
    in_packets_per_sec |-> 0, in_bytes_per_sec |-> 0,
    read_ops_per_sec |-> 0, write_ops_per_sec |-> 0,
    read_kbytes_per_sec |-> 0, write_kbytes_per_sec |-> 0 ]

\* Fault variant of CloneCPU: a hand-written clone that starts the three
\* series empty instead of copying them.
CloneCPUShallow(m) ==
  [m EXCEPT !.e_cluster_active_history = << >>,
            !.p_cluster_active_history = << >>,
            !.ane_w_history = << >>]

\* #[derive(Clone)]: a field-by-field deep copy (VecDeque::clone copies the
\* entries), so the copy shares no storage with the original.
CloneCPU(m) ==
  [ e_cluster_active |-> m.e_cluster_active,
    e_cluster_freq_mhz |-> m.e_cluster_freq_mhz,
    p_cluster_active |-> m.p_cluster_active,
    p_cluster_freq_mhz |-> m.p_cluster_freq_mhz,
    ane_w |-> m.ane_w, cpu_w |-> m.cpu_w, gpu_w |-> m.gpu_w,
    package_w |-> m.package_w,
    e_cluster_active_history |-> m.e_cluster_active_history,
    p_cluster_active_history |-> m.p_cluster_active_history,
    ane_w_history |-> m.ane_w_history ]

CloneGPU(m) ==
  [ freq_mhz |-> m.freq_mhz, active |-> m.active,
    active_history |-> m.active_history ]

CloneNetDisk(m) ==
  [ out_packets_per_sec |-> m.out_packets_per_sec,
    out_bytes_per_sec |-> m.out_bytes_per_sec,
    in_packets_per_sec |-> m.in_packets_per_sec,
    in_bytes_per_sec |-> m.in_bytes_per_sec,
    read_ops_per_sec |-> m.read_ops_per_sec,
    write_ops_per_sec |-> m.write_ops_per_sec,
    read_kbytes_per_sec |-> m.read_kbytes_per_sec,
    write_kbytes_per_sec |-> m.write_kbytes_per_sec ]

\* ------------------------------------------------------ rolling windows
\* Fault variant of RetainRecent: `time <= cutoff` for `time < cutoff`.
RECURSIVE RetainRecentInclusive(_, _)
RetainRecentInclusive(history, t) ==
  IF history = << >> THEN << >>
  ELSE IF Head(history)[1] <= t - Retention
       THEN RetainRecentInclusive(Tail(history), t)
       ELSE history

\* retain_recent: pop from the front while the front is older than the
\* cutoff; stop at the first entry that is not.
RECURSIVE RetainRecent(_, _)
RetainRecent(history, t) ==
  IF history = << >> THEN << >>
  ELSE IF Head(history)[1] < t - Retention
       THEN RetainRecent(Tail(history), t)
       ELSE history

\* append_*: push_back((now, value)) then retain_recent.
AppendHistory(history, value, t) ==
  RetainRecent(Append(history, <<t, value>>), t)

\* history.iter().map(|&(_, value)| value.into()).sum()
RECURSIVE SumValues(_)
SumValues(history) ==
  IF history = << >> THEN 0
  ELSE Head(history)[2] + SumValues(Tail(history))

\* Fault variant of AverageHistory: no is_empty() guard, so an empty series
\* divides 0.0 by 0.0.
AverageHistoryUnguarded(history) ==
  [num |-> SumValues(history), den |-> Len(history)]

\* average_history: 0.0 when empty, else sum / len.  The f64 quotient is
\* kept as the exact fraction num/den; f64 rounding is not modelled.
AverageHistory(history) ==
  IF Len(history) = 0 THEN [num |-> 0, den |-> 1]
  ELSE [num |-> SumValues(history), den |-> Len(history)]

\* (ane_w * 100.0 / 8.0).clamp(0.0, 100.0), in hundredths of a percent from
\* milliwatts; exact for the multiples of 4 mW the inputs use.
Clamp(x, lo, hi) == IF x < lo THEN lo ELSE IF x > hi THEN hi ELSE x
\* Fault variant of AneUtil: the raw watts (in hundredths of a watt).
AneUtilRaw(ane_w) == ane_w \div 10

AneUtil(ane_w) == Clamp((ane_w * 100 * 100) \div AneCeiling, 0, ClampMax)

\* ---------------------------------------------------------------- lines
\* A line of the sampler's output is represented by what the regexes and the
\* whitespace split extract from it:
\*   pat      which pattern of the table the text matches ("none": no one),
\*   cluster  capture 1 of RESIDENCY_RE / FREQUENCY_RE,
\*   ntok     how many whitespace-separated tokens a power line has,
\*   tok1/2   the captured numeric texts; ok = the text parses as a number
\*            (str::parse succeeds), val = the number it denotes.
Tok(v) == [ok |-> TRUE, val |-> v]
BadTok == [ok |-> FALSE, val |-> 0]
Line(pat, cluster, ntok, tok1, tok2) ==
  [pat |-> pat, cluster |-> cluster, ntok |-> ntok, tok1 |-> tok1, tok2 |-> tok2]

\* "E-Cluster HW active residency:  42.50%"
LineEResidency == Line("residency", "E-Cluster", 5, Tok(4250), BadTok)
\* "GPU HW active residency:  30.50%"
LineGpuResidency == Line("gpu_residency", "", 5, Tok(3050), BadTok)
\* "out: 10.00 packets/s, 2048.00 bytes/s"
LineOut == Line("out", "", 5, Tok(1000), Tok(204800))
\* "ANE Power: 500 mW"
LineAnePower == Line("ane_power", "", 4, Tok(500), BadTok)
\* "**** Processor usage ****": matches no pattern
LineOther == Line("none", "", 4, BadTok, BadTok)

\* "E0-Cluster HW active residency:  99.99%"
LineE0Residency == Line("residency", "E0-Cluster", 5, Tok(9999), BadTok)
\* "P-Cluster HW active residency:  10.00%"
LinePResidency == Line("residency", "P-Cluster", 5, Tok(1000), BadTok)
\* "P0-Cluster HW active residency:  55.70%"
LineP0Residency == Line("residency", "P0-Cluster", 5, Tok(5570), BadTok)
\* "S-Cluster HW active residency:  77.00%": a cluster the match ignores
LineSResidency == Line("residency", "S-Cluster", 5, Tok(7700), BadTok)
\* "E-Cluster HW active frequency: 1500 MHz"
LineEFrequency == Line("frequency", "E-Cluster", 6, Tok(1500), BadTok)
\* "P0-Cluster HW active frequency: 3000 MHz"
LineP0Frequency == Line("frequency", "P0-Cluster", 6, Tok(3000), BadTok)
\* "S-Cluster HW active frequency: 2000 MHz"
LineSFrequency == Line("frequency", "S-Cluster", 6, Tok(2000), BadTok)
\* "ANE Power: 12000 mW": above the 8 W ceiling
LineAnePowerHigh == Line("ane_power", "", 4, Tok(12000), BadTok)
\* "ANE Power: -400 mW": a negative reading
LineAnePowerNegative == Line("ane_power", "", 4, Tok(-400), BadTok)
\* "ANE Power: n/a": the third token is not a number
LineAnePowerBad == Line("ane_power", "", 3, BadTok, BadTok)
\* "ANE Power": fewer than three tokens
LineAnePowerShort == Line("ane_power", "", 2, BadTok, BadTok)
\* "CPU Power: 1200 mW"
LineCpuPower == Line("cpu_power", "", 4, Tok(1200), BadTok)
\* "GPU Power: 300 mW"
LineGpuPower == Line("gpu_power", "", 4, Tok(300), BadTok)
\* "Combined Power (CPU + GPU + ANE): 2000 mW": the number is parts[7]
LineCombinedPower == Line("combined_power", "", 9, Tok(2000), BadTok)
\* "GPU HW active frequency: 900 MHz"
LineGpuFrequency == Line("gpu_frequency", "", 6, Tok(900), BadTok)
\* "in: 20.00 packets/s, 4096.00 bytes/s"
LineIn == Line("in", "", 5, Tok(2000), Tok(409600))
\* "read: 5.00 ops/s 64.00 KBytes/s"
LineRead == Line("read", "", 5, Tok(500), Tok(6400))
\* "write: 7.00 ops/s, 1.2.3 KBytes/s": [\d.]+ captures a text that is no number
LineWrite == Line("write", "", 5, Tok(700), BadTok)

\* The lines the sampler emits in the pipeline model.
Lines == {LineEResidency, LineOut}

\* The lines the sampler emits in the line-parsing model.
PLines ==
  { LineEResidency, LineE0Residency, LinePResidency, LineP0Residency,
    LineSResidency, LineEFrequency, LineP0Frequency, LineSFrequency,
    LineAnePower, LineAnePowerHigh, LineAnePowerNegative, LineAnePowerBad,
    LineAnePowerShort, LineCpuPower, LineGpuPower, LineCombinedPower,
    LineGpuResidency, LineGpuFrequency,
    LineOut, LineIn, LineRead, LineWrite, LineOther }

\* caps[i].parse().unwrap_or(0.0) / unwrap_or(0)
ParseNum(tok) == IF tok.ok THEN tok.val ELSE 0
\* Fault variant of AsI32: rounding to the nearest integer.
AsI32Rounded(hundredths) == (hundredths + 50) \div 100

\* `percent as i32`: truncation of the f64 percent (hundredths) to an integer.
\* (The cast saturates at i32::MAX; the percentages of the model are far
\* below it.)
AsI32(hundredths) == hundredths \div 100

\* parse_cpu_metrics
ParseCpuMetrics(line, m) ==
  CASE line.pat = "residency" ->
         LET percent == ParseNum(line.tok1) IN
         IF line.cluster \in {"E-Cluster", "E0-Cluster"}
           THEN [m EXCEPT !.e_cluster_active = AsI32(percent)]
         ELSE IF line.cluster \in {"P-Cluster", "P0-Cluster"}
           THEN [m EXCEPT !.p_cluster_active = AsI32(percent)]
         ELSE m
    [] line.pat = "frequency" ->
         LET freq_mhz == ParseNum(line.tok1) IN
         IF line.cluster \in {"E-Cluster", "E0-Cluster"}
           THEN [m EXCEPT !.e_cluster_freq_mhz = freq_mhz]
         ELSE IF line.cluster \in {"P-Cluster", "P0-Cluster"}
           THEN [m EXCEPT !.p_cluster_freq_mhz = freq_mhz]
         ELSE m
    [] line.pat = "ane_power" ->
         IF line.ntok >= 3 THEN [m EXCEPT !.ane_w = ParseNum(line.tok1)] ELSE m
    [] line.pat = "cpu_power" ->
         IF line.ntok >= 3 THEN [m EXCEPT !.cpu_w = ParseNum(line.tok1)] ELSE m
    [] line.pat = "gpu_power" ->
         IF line.ntok >= 3 THEN [m EXCEPT !.gpu_w = ParseNum(line.tok1)] ELSE m
    [] line.pat = "combined_power" ->
         IF line.ntok >= 8 THEN [m EXCEPT !.package_w = ParseNum(line.tok1)] ELSE m
    [] OTHER -> m

\* Fault variant of ParseGpuMetrics: the record is rebuilt from the line, so
\* a field the line does not carry falls back to 0.
ParseGpuMetricsFresh(line, m) ==
  CASE line.pat = "gpu_residency" ->
         [m EXCEPT !.active = ParseNum(line.tok1), !.freq_mhz = 0]
    [] line.pat = "gpu_frequency" ->
         [m EXCEPT !.freq_mhz = ParseNum(line.tok1), !.active = 0]
    [] OTHER -> m

\* parse_gpu_metrics
ParseGpuMetrics(line, m) ==
  CASE line.pat = "gpu_residency" -> [m EXCEPT !.active = ParseNum(line.tok1)]
    [] line.pat = "gpu_frequency" -> [m EXCEPT !.freq_mhz = ParseNum(line.tok1)]
    [] OTHER -> m

\* Fault variant of ParseNetdiskMetrics: a capture that is no number makes
\* the parser give up the line (an early return for unwrap_or).
ParseNetdiskMetricsAbort(line, m) ==
  IF line.pat \in {"out", "in", "read", "write"}
     /\ ~(line.tok1.ok /\ line.tok2.ok)
    THEN m
    ELSE CASE line.pat = "out" ->
                [m EXCEPT !.out_packets_per_sec = ParseNum(line.tok1),
                          !.out_bytes_per_sec = ParseNum(line.tok2)]
           [] line.pat = "in" ->
                [m EXCEPT !.in_packets_per_sec = ParseNum(line.tok1),
                          !.in_bytes_per_sec = ParseNum(line.tok2)]
           [] line.pat = "read" ->
                [m EXCEPT !.read_ops_per_sec = ParseNum(line.tok1),
                          !.read_kbytes_per_sec = ParseNum(line.tok2)]
           [] line.pat = "write" ->
                [m EXCEPT !.write_ops_per_sec = ParseNum(line.tok1),
                          !.write_kbytes_per_sec = ParseNum(line.tok2)]
           [] OTHER -> m

\* parse_netdisk_metrics
ParseNetdiskMetrics(line, m) ==
  CASE line.pat = "out" ->
         [m EXCEPT !.out_packets_per_sec = ParseNum(line.tok1),
                   !.out_bytes_per_sec = ParseNum(line.tok2)]
    [] line.pat = "in" ->
         [m EXCEPT !.in_packets_per_sec = ParseNum(line.tok1),
                   !.in_bytes_per_sec = ParseNum(line.tok2)]
    [] line.pat = "read" ->
         [m EXCEPT !.read_ops_per_sec = ParseNum(line.tok1),
                   !.read_kbytes_per_sec = ParseNum(line.tok2)]
    [] line.pat = "write" ->
         [m EXCEPT !.write_ops_per_sec = ParseNum(line.tok1),
                   !.write_kbytes_per_sec = ParseNum(line.tok2)]
    [] OTHER -> m

\* collect_metrics, lines 643-645: the three CPU-side appends.
AppendCpu(m, t) ==
  [m EXCEPT
     !.e_cluster_active_history =
        AppendHistory(m.e_cluster_active_history, m.e_cluster_active, t),
     !.p_cluster_active_history =
        AppendHistory(m.p_cluster_active_history, m.p_cluster_active, t),
     !.ane_w_history = AppendHistory(m.ane_w_history, AneUtil(m.ane_w), t)]

\* Fault variant of AppendGpu: nothing is appended.
AppendGpuNone(m, t) == m

\* collect_metrics, line 647: gpu_metrics.append_active(gpu_metrics.active).
AppendGpu(m, t) ==
  [m EXCEPT !.active_history = AppendHistory(m.active_history, m.active, t)]

\* Fault variant of GetMemoryMetrics: the percentage of physical memory only,
\* swap left out of both sums.
GetMemoryMetricsNoSwap(q) ==
  IF ~q.ok THEN [used_percent |-> 0, used_percent_history |-> << >>]
  ELSE [used_percent |->
          IF q.total > 0 THEN (q.used * 100 * 100) \div q.total ELSE 0,
        used_percent_history |-> << >>]

\* get_memory_metrics: the outcome of the external queries is the input q
\* (ok = host_statistics64 and get_total_memory both succeeded); used_percent
\* in hundredths of a percent.
GetMemoryMetrics(q) ==
  IF ~q.ok THEN [used_percent |-> 0, used_percent_history |-> << >>]
  ELSE LET total_with_swap == q.total + q.swap_total
           used_with_swap == q.used + q.swap_used
       IN [used_percent |->
             IF total_with_swap > 0
               THEN (used_with_swap * 100 * 100) \div total_with_swap
               ELSE 0,
           used_percent_history |-> << >>]

\* Fault variant of MemoryMetricsNew: the series of the previous render is
\* not carried over.
MemoryMetricsNewFresh(previous, q, t) ==
  LET metrics == GetMemoryMetrics(q)
  IN [metrics EXCEPT !.used_percent_history =
        AppendHistory(<< >>, metrics.used_percent, t)]

\* MemoryMetrics::new(previous)
MemoryMetricsNew(previous, q, t) ==
  LET metrics == GetMemoryMetrics(q)
      carried == IF previous.some THEN previous.val.used_percent_history
                 ELSE << >>
  IN [metrics EXCEPT !.used_percent_history =
        AppendHistory(carried, metrics.used_percent, t)]

\* What the external memory queries may answer in the memory-query model:
\* ok = host_statistics64 and get_total_memory both succeeded; a failed
\* get_swap_memory is the answer with both swap amounts 0.
MemAnswers ==
  [ok : BOOLEAN, total : 0..MaxMem, used : 0..MaxMem,
   swap_total : 0..MaxMem, swap_used : 0..MaxMem]

\* What the external memory queries may answer in the pipeline model (GiB):
\* 8 of 16 used and no swap, or host_statistics64 fails.
MemQueries ==
  { [ok |-> TRUE, total |-> 16, used |-> 8, swap_total |-> 0, swap_used |-> 0],
    [ok |-> FALSE, total |-> 0, used |-> 0, swap_total |-> 0, swap_used |-> 0] }

\* draw_ui, lines 384-461: the five charts.  Each is given a series of the
\* display state as it is and is labelled with the average_* of that same
\* series; draw_ui prunes nothing.
DrawUi(cpu, gpu, memory) ==
  LET chart(history) == [avg |-> AverageHistory(history), series |-> history]
  IN [e_cpu |-> chart(cpu.e_cluster_active_history),
      p_cpu |-> chart(cpu.p_cluster_active_history),
      gpu |-> chart(gpu.active_history),
      ane |-> chart(cpu.ane_w_history),
      mem |-> chart(memory.used_percent_history)]

\* Fault variant of ShouldNotify: `>` for `>=`.
ShouldNotifyStrict(last, t) == t - last > GracePeriod

\* EventThrottler::should_notify, the comparison.
ShouldNotify(last, t) == t - last >= GracePeriod

\* Fault variant of TryRecv: the newest pending message first.
TryRecvNewest(chan) ==
  IF chan = << >> THEN [ok |-> FALSE]
  ELSE [ok |-> TRUE, msg |-> chan[Len(chan)],
        rest |-> SubSeq(chan, 1, Len(chan) - 1)]

\* Receiver::try_recv on an unbounded FIFO channel: the oldest pending
\* message and the rest, or nothing when the channel is empty.
TryRecv(chan) ==
  IF chan = << >> THEN [ok |-> FALSE]
  ELSE [ok |-> TRUE, msg |-> Head(chan), rest |-> Tail(chan)]

\* Fault variant of Send: a channel of capacity 1 that drops what does not
\* fit.
SendBounded(chan, msg) == IF Len(chan) >= 1 THEN chan ELSE Append(chan, msg)

\* Sender::send on an unbounded channel: enqueue at the back, never blocks.
Send(chan, msg) == Append(chan, msg)

\* Arc::new(Mutex::new(true))
RunningInit == TRUE

\* ---------------------------------------------------------------- state
VARIABLES
  \* environment
  now,               \* Instant::now(), ms
  nticks,            \* clock advances so far
  euid_root,         \* geteuid() == 0
  child,             \* the powermetrics subprocess
  query_failures,    \* renders so far whose memory query failed
  \* shared between the threads
  running,           \* Arc<Mutex<bool>>
  cpu_chan, gpu_chan, netdisk_chan,
  \* main thread (main)
  main_pc, updated, cpu_metrics, gpu_metrics, netdisk_metrics,
  memory_metrics, last_event,
  \* producer thread (collect_metrics)
  col_pc, col_cpu, col_gpu, col_netdisk, line,
  lineno,            \* items the line iterator has yielded so far
  read_errors,       \* how many of them were Err
  \* history variables (record what happened; no action reads them)
  log,               \* the producer's records after each processed line
  sent,              \* per domain, every message sent so far, in order; a
                     \* message carries, beside the snapshot, its emission
                     \* index seq: the number of the processed line it is of
  held,              \* per domain, the seq of the snapshot on display (0:
                     \* the initial record)
  drained,           \* per domain, messages received in the current tick
  last_timer_render, \* when the last render of a tick without update happened
  passed_at_stop,    \* at the quit: lines that had passed the RunSignal
                     \* check, and lines whose publication was complete
  \* rolling-window model (a single series and its owner)
  w_pc,              \* where the owner of the series is: idle / pruning
  w_history,         \* the VecDeque<(Instant, T)>
  w_now,             \* Instant::now(), ms
  w_nticks,          \* clock advances so far
  w_pushes,          \* entries pushed so far
  w_avg,             \* what the last average_history call returned
  w_op,              \* history variable: the operation performed last
  w_before,          \* history variable: the series before that operation
  \* line-parsing model (the producer's three records and the lines so far)
  p_pc,              \* where the loop body is: read / parsed
  p_cpu, p_gpu, p_netdisk,
  p_lines,           \* history variable: the lines processed so far
  p_before,          \* history variable: the records before the last line
  p_sent,            \* lines whose three snapshots have been sent
  \* memory-query model
  q_in,              \* what the external memory queries answer
  q_out              \* what the last get_memory_metrics call returned

envVars == <<now, nticks, euid_root, child, query_failures>>
chanVars == <<cpu_chan, gpu_chan, netdisk_chan>>
displayVars == <<cpu_metrics, gpu_metrics, netdisk_metrics>>
renderVars == <<memory_metrics, last_event, last_timer_render>>
mainVars == <<main_pc, updated, displayVars, renderVars>>
colRecVars == <<col_cpu, col_gpu, col_netdisk>>
colVars == <<col_pc, colRecVars, line, lineno, read_errors>>
histVars == <<held, sent, log, drained, passed_at_stop>>
wVars == <<w_pc, w_history, w_now, w_nticks, w_pushes, w_avg, w_op, w_before>>
pVars == <<p_pc, p_cpu, p_gpu, p_netdisk, p_lines, p_before, p_sent>>
qVars == <<q_in, q_out>>
pipeVars == <<envVars, running, chanVars, mainVars, colVars, histVars>>
vars == <<envVars, running, chanVars, mainVars, colVars, histVars, wVars,
          pVars, qVars>>

Domains == {"cpu", "gpu", "netdisk"}

\* The process is alive: main has neither returned nor been aborted.
Alive == main_pc \notin {"exit1", "exited", "aborted"}

WIdle ==
  /\ w_pc = "idle" /\ w_history = << >> /\ w_now = 0 /\ w_nticks = 0
  /\ w_pushes = 0 /\ w_avg = None /\ w_op = "none" /\ w_before = << >>

PIdle ==
  /\ p_pc = "read"
  /\ p_cpu = CPUMetricsNew /\ p_gpu = GPUMetricsNew
  /\ p_netdisk = NetDiskMetricsNew
  /\ p_lines = << >>
  /\ p_before = [cpu |-> CPUMetricsNew, gpu |-> GPUMetricsNew,
                  netdisk |-> NetDiskMetricsNew]
  /\ p_sent = 0

QIdle == q_in = (CHOOSE q \in MemQueries : TRUE) /\ q_out = None

PipeInit ==
  /\ now = 0 /\ nticks = 0
  /\ euid_root \in BOOLEAN
  /\ child = "none"
  /\ query_failures = 0
  /\ running = RunningInit
  /\ cpu_chan = << >> /\ gpu_chan = << >> /\ netdisk_chan = << >>
  /\ main_pc = "start" /\ updated = FALSE
  /\ cpu_metrics = CPUMetricsNew
  /\ gpu_metrics = GPUMetricsNew
  /\ netdisk_metrics = NetDiskMetricsNew
  /\ memory_metrics = None
  /\ last_event = 0
  /\ col_pc = "unspawned"
  /\ col_cpu = CPUMetricsNew /\ col_gpu = GPUMetricsNew
  /\ col_netdisk = NetDiskMetricsNew
  /\ line = LineOther /\ lineno = 0 /\ read_errors = 0
  /\ held = [d \in Domains |-> 0]
  /\ sent = [d \in Domains |-> << >>]
  /\ log = << >>
  /\ drained = [d \in Domains |-> 0]
  /\ last_timer_render = None
  /\ passed_at_stop = None

Init == PipeInit /\ WIdle /\ PIdle /\ QIdle

\* ------------------------------------------------------------ main thread
\* main, lines 219-222: not root -> exit(1), before anything is created.
StartupNoPrivilege ==
  /\ main_pc = "start" /\ ~euid_root
  /\ main_pc' = "exit1"
  /\ UNCHANGED <<envVars, running, chanVars, updated, displayVars, renderVars,
                 colVars, histVars, wVars, pVars, qVars>>

\* main, lines 224-248: terminal set-up, channels, RunSignal, the producer
\* thread is spawned, the throttler and the display records are created.
Startup ==
  /\ main_pc = "start" /\ euid_root
  /\ main_pc' = "poll"
  /\ col_pc' = "spawn"
  /\ last_event' = now - GracePeriod
  /\ UNCHANGED <<envVars, running, chanVars, updated, displayVars,
                 memory_metrics, last_timer_render,
                 colRecVars, line, lineno, read_errors, histVars, wVars, pVars, qVars>>

\* main, lines 252-258: the poll returned a 'q' or 'Q' key press.
PollQuit ==
  /\ main_pc = "poll"
  /\ running' = FALSE
  /\ main_pc' = "teardown"
  /\ passed_at_stop' = Some([lines |-> Len(log),
                               published |-> Len(sent.netdisk)])
  /\ UNCHANGED <<envVars, chanVars, updated, displayVars, renderVars, colVars,
                 held, sent, log, drained, wVars, pVars, qVars>>

\* main, lines 252-262: the poll timed out or returned another event.
PollContinue ==
  /\ main_pc = "poll"
  /\ updated' = FALSE
  /\ main_pc' = "drain_cpu"
  /\ drained' = [d \in Domains |-> 0]
  /\ UNCHANGED <<envVars, running, chanVars, displayVars, renderVars, colVars,
                 held, sent, log, passed_at_stop, wVars, pVars, qVars>>

\* Fault variant of DrainCpu: `if let` for `while let`, one receive a tick.
DrainCpuIfLet ==
  /\ main_pc = "drain_cpu"
  /\ LET r == [ok |-> cpu_chan # << >>] IN
       IF r.ok
         THEN /\ cpu_metrics' = Head(cpu_chan).snap
              /\ cpu_chan' = Tail(cpu_chan)
              /\ updated' = TRUE
              /\ held' = [held EXCEPT !.cpu = Head(cpu_chan).seq]
              /\ drained' = [drained EXCEPT !.cpu = @ + 1]
         ELSE UNCHANGED <<cpu_metrics, cpu_chan, updated, held, drained>>
  /\ main_pc' = "drain_gpu"
  /\ UNCHANGED <<envVars, running, gpu_chan, netdisk_chan, gpu_metrics,
                 netdisk_metrics, renderVars, colVars, sent, log,
                 passed_at_stop, wVars, pVars, qVars>>

\* Fault variant of DrainCpu: the blocking recv() for try_recv(), which waits
\* on an empty channel until a message arrives or the producer has ended.
DrainCpuRecv ==
  /\ main_pc = "drain_cpu"
  /\ cpu_chan # << >> \/ col_pc \in {"eof", "stopped", "panicked"}
  /\ LET r == TryRecv(cpu_chan) IN
       IF r.ok
         THEN /\ cpu_metrics' = r.msg.snap
              /\ cpu_chan' = r.rest
              /\ updated' = TRUE
              /\ held' = [held EXCEPT !.cpu = r.msg.seq]
              /\ drained' = [drained EXCEPT !.cpu = @ + 1]
              /\ UNCHANGED main_pc
         ELSE /\ main_pc' = "drain_gpu"
              /\ UNCHANGED <<cpu_metrics, cpu_chan, updated, held, drained>>
  /\ UNCHANGED <<envVars, running, gpu_chan, netdisk_chan, gpu_metrics,
                 netdisk_metrics, renderVars, colVars, sent, log,
                 passed_at_stop, wVars, pVars, qVars>>

\* main, lines 264-267: one iteration of the CPU drain loop.
DrainCpu ==
  /\ main_pc = "drain_cpu"
  /\ LET r == TryRecv(cpu_chan) IN
       IF r.ok
         THEN /\ cpu_metrics' = r.msg.snap
              /\ cpu_chan' = r.rest
              /\ updated' = TRUE
              /\ held' = [held EXCEPT !.cpu = r.msg.seq]
              /\ drained' = [drained EXCEPT !.cpu = @ + 1]
              /\ UNCHANGED main_pc
         ELSE /\ main_pc' = "drain_gpu"
              /\ UNCHANGED <<cpu_metrics, cpu_chan, updated, held, drained>>
  /\ UNCHANGED <<envVars, running, gpu_chan, netdisk_chan, gpu_metrics,
                 netdisk_metrics, renderVars, colVars, sent, log,
                 passed_at_stop, wVars, pVars, qVars>>

\* main, lines 269-272: one iteration of the GPU drain loop.
DrainGpu ==
  /\ main_pc = "drain_gpu"
  /\ LET r == TryRecv(gpu_chan) IN
       IF r.ok
         THEN /\ gpu_metrics' = r.msg.snap
              /\ gpu_chan' = r.rest
              /\ updated' = TRUE
              /\ held' = [held EXCEPT !.gpu = r.msg.seq]
              /\ drained' = [drained EXCEPT !.gpu = @ + 1]
              /\ UNCHANGED main_pc
         ELSE /\ main_pc' = "drain_netdisk"
              /\ UNCHANGED <<gpu_metrics, gpu_chan, updated, held, drained>>
  /\ UNCHANGED <<envVars, running, cpu_chan, netdisk_chan, cpu_metrics,
                 netdisk_metrics, renderVars, colVars, sent, log,
                 passed_at_stop, wVars, pVars, qVars>>

\* main, lines 274-277: one iteration of the NetDisk drain loop.
DrainNetdisk ==
  /\ main_pc = "drain_netdisk"
  /\ LET r == TryRecv(netdisk_chan) IN
       IF r.ok
         THEN /\ netdisk_metrics' = r.msg.snap
              /\ netdisk_chan' = r.rest
              /\ updated' = TRUE
              /\ held' = [held EXCEPT !.netdisk = r.msg.seq]
              /\ drained' = [drained EXCEPT !.netdisk = @ + 1]
              /\ UNCHANGED main_pc
         ELSE /\ main_pc' = "decide"
              /\ UNCHANGED <<netdisk_metrics, netdisk_chan, updated, held, drained>>
  /\ UNCHANGED <<envVars, running, cpu_chan, gpu_chan, cpu_metrics,
                 gpu_metrics, renderVars, colVars, sent, log,
                 passed_at_stop, wVars, pVars, qVars>>

\* main, lines 280-292: MemoryMetrics::new(&memory_metrics) and the draw.
Render ==
  \E q \in MemQueries :
    /\ q.ok \/ query_failures < MaxQueryFailures
    /\ memory_metrics' = Some(MemoryMetricsNew(memory_metrics, q, now))
    /\ query_failures' = IF q.ok THEN query_failures ELSE query_failures + 1

\* main, line 279: `updated || need_render.should_notify()`.  The || is
\* short-circuit: should_notify runs, and may move last_event, only when
\* updated is false.  The iteration ends here and its local `updated` with
\* it (the next iteration declares it anew, false).
Decide ==
  /\ main_pc = "decide"
  /\ IF updated
       THEN Render /\ UNCHANGED <<last_event, last_timer_render>>
       ELSE IF ShouldNotify(last_event, now)
         THEN Render /\ last_event' = now /\ last_timer_render' = Some(now)
         ELSE UNCHANGED <<memory_metrics, last_event, last_timer_render,
                          query_failures>>
  /\ main_pc' = "poll"
  /\ updated' = FALSE
  /\ drained' = [d \in Domains |-> 0]
  /\ UNCHANGED <<now, nticks, euid_root, child, running, chanVars, displayVars, colVars,
                 held, sent, log, passed_at_stop, wVars, pVars, qVars>>

\* main, lines 296-304: the terminal is restored and main returns; the
\* process exits and takes the detached producer thread with it.
Teardown ==
  /\ main_pc = "teardown"
  /\ main_pc' = "exited"
  /\ UNCHANGED <<envVars, running, chanVars, updated, displayVars, renderVars,
                 colVars, histVars, wVars, pVars, qVars>>

\* -------------------------------------------------------- producer thread
\* collect_metrics, lines 609-626: the subprocess is spawned.
SpawnOk ==
  /\ col_pc = "spawn" /\ Alive
  /\ child' = "running"
  /\ col_pc' = "read"
  /\ UNCHANGED <<now, nticks, euid_root, query_failures, running, chanVars, mainVars,
                 colRecVars, line, lineno, read_errors, histVars, wVars, pVars, qVars>>

\* collect_metrics, line 619: spawn failed and .expect() panics.  With the
\* default panic strategy only the producer thread unwinds.
SpawnFailUnwind ==
  /\ col_pc = "spawn" /\ Alive
  /\ col_pc' = "panicked"
  /\ UNCHANGED <<envVars, running, chanVars, mainVars,
                 colRecVars, line, lineno, read_errors, histVars, wVars, pVars, qVars>>

\* The same panic in a build with panic = "abort": the process is aborted,
\* whatever the main thread has reached by then.
SpawnFailAbort ==
  /\ col_pc = "spawn" /\ Alive
  /\ col_pc' = "panicked"
  /\ main_pc' = "aborted"
  /\ UNCHANGED <<envVars, running, chanVars, updated, displayVars, renderVars,
                 colRecVars, line, lineno, read_errors, histVars, wVars, pVars, qVars>>

\* collect_metrics, lines 628-630: the iterator yields Ok(line).
ReadLine ==
  /\ col_pc = "read" /\ Alive /\ child = "running"
  /\ lineno < MaxLines
  /\ \E l \in Lines : line' = l
  /\ lineno' = lineno + 1
  /\ col_pc' = "check"
  /\ UNCHANGED <<envVars, running, chanVars, mainVars, colRecVars,
                 read_errors, histVars, wVars, pVars, qVars>>

\* Fault variant of ReadError: `Err(_) => break`, the error ends the stream.
ReadErrorBreaks ==
  /\ col_pc = "read" /\ Alive /\ child = "running"
  /\ lineno < MaxLines
  /\ lineno' = lineno + 1
  /\ read_errors' = read_errors + 1
  /\ col_pc' = "eof"
  /\ UNCHANGED <<envVars, running, chanVars, mainVars, colRecVars,
                 line, histVars, wVars, pVars, qVars>>

\* collect_metrics, line 631: Err(_) => continue.
ReadError ==
  /\ col_pc = "read" /\ Alive /\ child = "running"
  /\ lineno < MaxLines
  /\ lineno' = lineno + 1
  /\ read_errors' = read_errors + 1
  /\ UNCHANGED <<envVars, running, chanVars, mainVars, col_pc, colRecVars,
                 line, histVars, wVars, pVars, qVars>>

\* Fault variant of ReadEof: the producer reports its end through RunSignal.
ReadEofClearsRunning ==
  /\ col_pc = "read" /\ Alive /\ child = "running"
  /\ child' = "exited"
  /\ col_pc' = "eof"
  /\ running' = FALSE
  /\ UNCHANGED <<now, nticks, euid_root, query_failures, chanVars, mainVars,
                 colRecVars, line, lineno, read_errors, histVars, wVars, pVars, qVars>>

\* Fault variant of ReadEof: the producer starts the sampler again.
ReadEofRespawn ==
  /\ col_pc = "read" /\ Alive /\ child = "running"
  /\ child' = "exited"
  /\ col_pc' = "spawn"
  /\ UNCHANGED <<now, nticks, euid_root, query_failures, running, chanVars, mainVars,
                 colRecVars, line, lineno, read_errors, histVars, wVars, pVars, qVars>>

\* collect_metrics, line 628: the sampler exited, the iterator ends, the
\* function returns (no kill, no wait).
ReadEof ==
  /\ col_pc = "read" /\ Alive /\ child = "running"
  /\ child' = "exited"
  /\ col_pc' = "eof"
  /\ UNCHANGED <<now, nticks, euid_root, query_failures, running, chanVars, mainVars,
                 colRecVars, line, lineno, read_errors, histVars, wVars, pVars, qVars>>

\* collect_metrics, lines 634-637: RunSignal is false: kill and break.
ObserveStop ==
  /\ col_pc = "check" /\ Alive
  /\ ~running
  /\ child' = "killed"
  /\ col_pc' = "stopped"
  /\ UNCHANGED <<now, nticks, euid_root, query_failures, running, chanVars, mainVars,
                 colRecVars, line, lineno, read_errors, histVars, wVars, pVars, qVars>>

\* Fault variant of ProcessLine: the line is processed without looking at
\* RunSignal.
ProcessLineUnchecked ==
  /\ col_pc = "check" /\ Alive
  /\ LET c == AppendCpu(ParseCpuMetrics(line, col_cpu), now)
         g == AppendGpu(ParseGpuMetrics(line, col_gpu), now)
         n == ParseNetdiskMetrics(line, col_netdisk)
     IN /\ col_cpu' = c /\ col_gpu' = g /\ col_netdisk' = n
        /\ log' = Append(log, [cpu |-> c, gpu |-> g, netdisk |-> n])
  /\ col_pc' = "send_cpu"
  /\ UNCHANGED <<envVars, running, chanVars, mainVars, line, lineno,
                 read_errors, held, sent, drained, passed_at_stop, wVars, pVars, qVars>>

\* collect_metrics, lines 634-647: RunSignal is true: the three parsers,
\* then the four appends.
ProcessLine ==
  /\ col_pc = "check" /\ Alive
  /\ running
  /\ LET c == AppendCpu(ParseCpuMetrics(line, col_cpu), now)
         g == AppendGpu(ParseGpuMetrics(line, col_gpu), now)
         n == ParseNetdiskMetrics(line, col_netdisk)
     IN /\ col_cpu' = c /\ col_gpu' = g /\ col_netdisk' = n
        /\ log' = Append(log, [cpu |-> c, gpu |-> g, netdisk |-> n])
  /\ col_pc' = "send_cpu"
  /\ UNCHANGED <<envVars, running, chanVars, mainVars, line, lineno,
                 read_errors, held, sent, drained, passed_at_stop,
                 wVars, pVars, qVars>>

\* Fault variant of SendCpu: the CPU and GPU snapshots of a line are
\* published together in one step.
SendCpuWithGpu ==
  /\ col_pc = "send_cpu" /\ Alive
  /\ LET msg == [snap |-> CloneCPU(col_cpu), seq |-> Len(log)]
         gmsg == [snap |-> CloneGPU(col_gpu), seq |-> Len(log)] IN
       /\ cpu_chan' = Send(cpu_chan, msg)
       /\ gpu_chan' = Send(gpu_chan, gmsg)
       /\ sent' = [sent EXCEPT !.cpu = Append(@, msg), !.gpu = Append(@, gmsg)]
  /\ col_pc' = "send_netdisk"
  /\ UNCHANGED <<envVars, running, netdisk_chan, mainVars,
                 colRecVars, line, lineno, read_errors, held, log,
                 drained, passed_at_stop, wVars, pVars, qVars>>

\* collect_metrics, line 649.
SendCpu ==
  /\ col_pc = "send_cpu" /\ Alive
  /\ LET msg == [snap |-> CloneCPU(col_cpu), seq |-> Len(log)] IN
       /\ cpu_chan' = Send(cpu_chan, msg)
       /\ sent' = [sent EXCEPT !.cpu = Append(@, msg)]
  /\ col_pc' = "send_gpu"
  /\ UNCHANGED <<envVars, running, gpu_chan, netdisk_chan, mainVars,
                 colRecVars, line, lineno, read_errors, held, log,
                 drained, passed_at_stop, wVars, pVars, qVars>>

\* collect_metrics, line 650.
SendGpu ==
  /\ col_pc = "send_gpu" /\ Alive
  /\ LET msg == [snap |-> CloneGPU(col_gpu), seq |-> Len(log)] IN
       /\ gpu_chan' = Send(gpu_chan, msg)
       /\ sent' = [sent EXCEPT !.gpu = Append(@, msg)]
  /\ col_pc' = "send_netdisk"
  /\ UNCHANGED <<envVars, running, cpu_chan, netdisk_chan, mainVars,
                 colRecVars, line, lineno, read_errors, held, log,
                 drained, passed_at_stop, wVars, pVars, qVars>>

\* collect_metrics, line 651, and back to the head of the loop.
SendNetdisk ==
  /\ col_pc = "send_netdisk" /\ Alive
  /\ LET msg == [snap |-> CloneNetDisk(col_netdisk), seq |-> Len(log)] IN
       /\ netdisk_chan' = Send(netdisk_chan, msg)
       /\ sent' = [sent EXCEPT !.netdisk = Append(@, msg)]
  /\ col_pc' = "read"
  /\ UNCHANGED <<envVars, running, cpu_chan, gpu_chan, mainVars,
                 colRecVars, line, lineno, read_errors, held, log,
                 drained, passed_at_stop, wVars, pVars, qVars>>

\* ---------------------------------------------------------------- clock
\* The threads suspend only in the poll (main) and in the blocking line read
\* (producer); the clock is observed to advance while both are suspended or
\* ended, and every other step is instantaneous.
Tick ==
  /\ main_pc = "poll"
  /\ col_pc \in {"read", "eof", "stopped", "panicked"}
  /\ nticks < MaxTicks
  /\ \E d \in Delays : now' = now + d
  /\ nticks' = nticks + 1
  /\ UNCHANGED <<euid_root, child, query_failures, running, chanVars, mainVars,
                 colVars, histVars, wVars, pVars, qVars>>

Next ==
  \/ StartupNoPrivilege \/ Startup
  \/ PollQuit \/ PollContinue
  \/ DrainCpu \/ DrainGpu \/ DrainNetdisk
  \/ Decide \/ Teardown
  \/ SpawnOk \/ SpawnFailUnwind \/ SpawnFailAbort
  \/ ReadLine \/ ReadError \/ ReadEof
  \/ ObserveStop \/ ProcessLine
  \/ SendCpu \/ SendGpu \/ SendNetdisk
  \/ Tick

Spec == Init /\ [][Next]_vars

\* ------------------------------------------------------ scheduling
\* The steps of the main thread that need nothing from outside (the quit is
\* the user's), and those of the producer thread that do not wait for the
\* sampler.  Both threads are scheduled by the operating system: a step of
\* either that stays possible is eventually taken.  The clock plays no part
\* in a drain and stands still here.
MainThread ==
  \/ StartupNoPrivilege \/ Startup \/ PollContinue
  \/ DrainCpu \/ DrainGpu \/ DrainNetdisk \/ Decide \/ Teardown
ProducerThread ==
  \/ SpawnOk \/ ObserveStop \/ ProcessLine
  \/ SendCpu \/ SendGpu \/ SendNetdisk
Environment ==
  \/ PollQuit \/ SpawnFailUnwind \/ SpawnFailAbort
  \/ ReadLine \/ ReadError \/ ReadEof

LiveNext == MainThread \/ ProducerThread \/ Environment

SpecLive ==
  Init /\ [][LiveNext]_vars /\ WF_vars(MainThread) /\ WF_vars(ProducerThread)

\* ------------------------------------------------- rolling-window model
\* One series and the methods every owner has (CPUMetrics::append_*,
\* GPUMetrics::append_active, MemoryMetrics::new, average_*), on their own:
\* an append is push_back((Instant::now(), value)) followed by retain_recent,
\* which reads the clock again, so the clock may advance between the two.

\* The values a series holds (percentages).
WValues == {42, 100}
\* Clock advances: a millisecond, half a window, a whole window.
WDelays == {1, 60000, 120000}

\* Fault variant of WPush: push_front for push_back.
WPushFront ==
  /\ w_pc = "idle"
  /\ w_pushes < MaxPushes
  /\ \E v \in WValues : w_history' = <<<<w_now, v>>>> \o w_history
  /\ w_pushes' = w_pushes + 1
  /\ w_pc' = "prune"
  /\ w_op' = "push" /\ w_before' = w_history
  /\ UNCHANGED <<w_now, w_nticks, w_avg, pipeVars, pVars, qVars>>

\* append_*, first half: let now = Instant::now(); push_back((now, value)).
WPush ==
  /\ w_pc = "idle"
  /\ w_pushes < MaxPushes
  /\ \E v \in WValues : w_history' = Append(w_history, <<w_now, v>>)
  /\ w_pushes' = w_pushes + 1
  /\ w_pc' = "prune"
  /\ w_op' = "push" /\ w_before' = w_history
  /\ UNCHANGED <<w_now, w_nticks, w_avg, pipeVars, pVars, qVars>>

\* append_*, second half: retain_recent(&mut history).
WPrune ==
  /\ w_pc = "prune"
  /\ w_history' = RetainRecent(w_history, w_now)
  /\ w_pc' = "idle"
  /\ w_op' = "prune" /\ w_before' = w_history
  /\ UNCHANGED <<w_now, w_nticks, w_pushes, w_avg, pipeVars, pVars, qVars>>

\* average_*: average_history(&history).
WAverage ==
  /\ w_pc = "idle"
  /\ w_op # "average"
  /\ w_avg' = Some(AverageHistory(w_history))
  /\ w_op' = "average" /\ w_before' = w_history
  /\ UNCHANGED <<w_pc, w_history, w_now, w_nticks, w_pushes, pipeVars, pVars, qVars>>

\* The clock advances.
WTick ==
  /\ w_nticks < MaxWTicks
  /\ \E d \in WDelays : w_now' = w_now + d
  /\ w_nticks' = w_nticks + 1
  /\ w_op' = "tick" /\ w_before' = w_history
  /\ UNCHANGED <<w_pc, w_history, w_pushes, w_avg, pipeVars, pVars, qVars>>

WInit == Init /\ euid_root

WNext == WPush \/ WPrune \/ WAverage \/ WTick

SpecWindow == WInit /\ [][WNext]_vars

\* --------------------------------------------------- line-parsing model
\* The body of the producer's loop on its own, for any sequence of lines:
\* the three parsers (lines 639-641), then the four appends (643-647).  The
\* instant of the appends is the number of the line.

\* collect_metrics, lines 639-641: the three parsers on the line read.
PParse ==
  /\ p_pc = "read"
  /\ Len(p_lines) < MaxPLines
  /\ \E l \in PLines :
       /\ p_lines' = Append(p_lines, l)
       /\ p_cpu' = ParseCpuMetrics(l, p_cpu)
       /\ p_gpu' = ParseGpuMetrics(l, p_gpu)
       /\ p_netdisk' = ParseNetdiskMetrics(l, p_netdisk)
  /\ p_before' = [cpu |-> p_cpu, gpu |-> p_gpu, netdisk |-> p_netdisk]
  /\ p_pc' = "parsed"
  /\ UNCHANGED <<p_sent, pipeVars, wVars, qVars>>

\* collect_metrics, lines 643-647: the four appends.
PAppend ==
  /\ p_pc = "parsed"
  /\ p_cpu' = AppendCpu(p_cpu, Len(p_lines))
  /\ p_gpu' = AppendGpu(p_gpu, Len(p_lines))
  /\ p_pc' = "appended"
  /\ UNCHANGED <<p_netdisk, p_lines, p_before, p_sent, pipeVars, wVars, qVars>>

\* collect_metrics, lines 649-651: the three sends of the line, none of
\* which can block or fail the loop.
PPublish ==
  /\ p_pc = "appended"
  /\ p_sent' = p_sent + 1
  /\ p_pc' = "read"
  /\ UNCHANGED <<p_cpu, p_gpu, p_netdisk, p_lines, p_before, pipeVars, wVars,
                 qVars>>

PInit == Init /\ euid_root

PNext == PParse \/ PAppend \/ PPublish

SpecParse == PInit /\ [][PNext]_vars

\* --------------------------------------------------- memory-query model
\* get_memory_metrics on its own, for any answer of the external queries.
QGetMemoryMetrics ==
  /\ q_out = None
  /\ q_out' = Some(GetMemoryMetrics(q_in))
  /\ UNCHANGED <<q_in, pipeVars, wVars, pVars>>

QInit ==
  /\ PipeInit /\ euid_root /\ WIdle /\ PIdle
  /\ q_in \in MemAnswers /\ q_out = None

QNext == QGetMemoryMetrics

SpecMemory == QInit /\ [][QNext]_vars

\* ======================================================== properties
Last(q) == q[Len(q)]
Display(d) ==
  CASE d = "cpu" -> cpu_metrics [] d = "gpu" -> gpu_metrics
    [] d = "netdisk" -> netdisk_metrics
Chan(d) ==
  CASE d = "cpu" -> cpu_chan [] d = "gpu" -> gpu_chan
    [] d = "netdisk" -> netdisk_chan
InitialRecord(d) ==
  CASE d = "cpu" -> CPUMetricsNew [] d = "gpu" -> GPUMetricsNew
    [] d = "netdisk" -> NetDiskMetricsNew
\* The step that ends the drain of d in this tick leaves the display of d
\* equal to the message sent last on d's channel when the drain received
\* N >= 1 messages, and as it was when it received none (the drain is then
\* this one step).
DrainEndsLatest(d, before, after) ==
  IF drained[d] >= 1
    THEN /\ Len(sent[d]) >= drained[d]
         /\ after = Last(sent[d]).snap
    ELSE after = before

\* C1: latest-wins drain.  For each of the three channels, when the drain
\* of a tick finishes after N >= 1 snapshots were pending, the display state
\* of that domain is exactly the Nth, most recently sent, snapshot (the
\* first N-1 are dropped, not merged); with N = 0 it is unchanged.
C1_LatestWinsDrain ==
  [][ /\ (main_pc = "drain_cpu" /\ main_pc' = "drain_gpu")
         => DrainEndsLatest("cpu", cpu_metrics, cpu_metrics')
      /\ (main_pc = "drain_gpu" /\ main_pc' = "drain_netdisk")
         => DrainEndsLatest("gpu", gpu_metrics, gpu_metrics')
      /\ (main_pc = "drain_netdisk" /\ main_pc' = "decide")
         => DrainEndsLatest("netdisk", netdisk_metrics, netdisk_metrics')
    ]_vars

\* A CPU drain has just ended after receiving two snapshots with different
\* contents: the display is the second.
C1_Witness ==
  /\ main_pc = "drain_gpu" /\ drained.cpu >= 2
  /\ sent.cpu[1].snap # sent.cpu[2].snap
  /\ cpu_metrics = sent.cpu[2].snap

\* The render of the step, seen by its effect: MemoryMetrics::new pushed a
\* sample.
RenderHappens == memory_metrics' # memory_metrics
\* This tick's drain yielded a snapshot on some channel.
AnyYield == \E d \in Domains : drained[d] >= 1
\* When the last render happened: each render pushes (now, _) to the memory
\* series and the pushed entry survives the prune that follows.
LastRenderTime == Last(memory_metrics.val.used_percent_history)[1]
DecideStep == main_pc = "decide" /\ main_pc' = "poll"

\* C2 as stated: on every tick without a quit key a render happens iff a
\* channel yielded a snapshot in the tick's drain or at least 500 ms have
\* elapsed since the last render, of either kind.
C2_RenderSinceLastRender ==
  [][ DecideStep =>
        (RenderHappens <=>
           \/ AnyYield
           \/ ~memory_metrics.some
           \/ now - LastRenderTime >= GracePeriod) ]_vars

\* C2, amended: on every tick without a quit key a render happens iff a
\* channel yielded a snapshot in the tick's drain or at least 500 ms have
\* elapsed since the last render of a tick whose drain yielded nothing (a
\* timer render; before the first one the condition holds).  Renders caused
\* by a snapshot do not restart the interval.
C2_RenderSinceLastTimerRender ==
  [][ DecideStep =>
        (RenderHappens <=>
           \/ AnyYield
           \/ ~last_timer_render.some
           \/ now - last_timer_render.val >= GracePeriod) ]_vars

\* The timer has just caused a render although the previous render, caused
\* by a snapshot, is less than 500 ms old.
C2_Witness ==
  /\ main_pc = "poll" /\ memory_metrics.some
  /\ last_timer_render.some /\ last_timer_render.val = now
  /\ LET h == memory_metrics.val.used_percent_history IN
       /\ Len(h) >= 2
       /\ h[Len(h)][1] = now
       /\ h[Len(h) - 1][1] < now
       /\ now - h[Len(h) - 1][1] < GracePeriod

InMainLoop ==
  main_pc \in {"poll", "drain_cpu", "drain_gpu", "drain_netdisk", "decide"}

\* C3: start-up failures are fatal before the main loop.  When the process
\* lacks root privilege, or when spawning the sampler fails, the main thread
\* is not in its poll/drain/render loop.
C3_StartupFatal ==
  (~euid_root \/ col_pc = "panicked") => ~InMainLoop

\* C4: stop liveness, in the form a finished run decides.  When the process
\* has exited after the quit, the producer has left its read loop and the
\* sampler is not left running.
C4_StopObserved ==
  main_pc = "exited" =>
    /\ child # "running"
    /\ col_pc \notin {"read", "check", "send_cpu", "send_gpu", "send_netdisk"}

\* C5: cancellation lag is at most one line.  A RunSignal check that finds
\* false parses nothing, appends nothing, publishes nothing, kills the
\* subprocess and leaves the loop; and after the quit no further line passes
\* the check, so the producer completes the publication of at most one line
\* (the one that had passed).
C5_CancellationLag ==
  /\ [](passed_at_stop.some =>
          /\ Len(log) = passed_at_stop.val.lines
          /\ Len(sent.netdisk) <= passed_at_stop.val.published + 1
          /\ \A d \in Domains : \A i \in 1..Len(sent[d]) :
               sent[d][i].seq <= passed_at_stop.val.lines)
  /\ [][ (col_pc = "check" /\ ~running /\ col_pc' # col_pc) =>
            /\ col_pc' = "stopped" /\ child' = "killed"
            /\ UNCHANGED <<colRecVars, chanVars, sent, log>> ]_vars

\* The publication of one line was completed after the quit, and the check
\* of the next line then stopped the producer.
C5_Witness ==
  /\ passed_at_stop.some
  /\ col_pc = "stopped" /\ child = "killed"
  /\ Len(sent.netdisk) = passed_at_stop.val.published + 1

\* C6: RunSignal lifecycle.  It is true initially, changes only in the main
\* thread's quit step and only to false, and once false stays false.
C6_RunSignalLifecycle ==
  /\ running = TRUE
  /\ [][ running' # running =>
           (running' = FALSE /\ main_pc = "poll" /\ main_pc' = "teardown") ]_vars
  /\ [][ running = FALSE => running' = FALSE ]_vars

\* RunSignal is false, the producer has read it, and the process has gone
\* on to exit.
C6_Witness == ~running /\ col_pc = "stopped" /\ main_pc = "exited"

\* C7: per-domain FIFO with skipping.  The display state of a domain is the
\* initial zero record or a snapshot the producer sent on that domain's
\* channel, and the emission index of the snapshot on display never
\* decreases.
C7_FifoWithSkipping ==
  /\ [](\A d \in Domains :
          \/ held[d] = 0 /\ Display(d) = InitialRecord(d)
          \/ \E i \in 1..Len(sent[d]) :
               sent[d][i].seq = held[d] /\ sent[d][i].snap = Display(d))
  /\ [][ \A d \in Domains : held'[d] >= held[d] ]_vars

\* The GPU display went from the initial record to the second snapshot in
\* one drain.
C7_Witness ==
  /\ main_pc = "drain_netdisk" /\ drained.gpu = 2 /\ held.gpu = 2

\* The record of domain d as the producer left it after processed line k.
Logged(d, k) ==
  CASE d = "cpu" -> log[k].cpu [] d = "gpu" -> log[k].gpu
    [] d = "netdisk" -> log[k].netdisk

\* C8: snapshot isolation.  Every snapshot pending in a channel or on
\* display equals the producer's record as it was when the line it is of
\* had been processed completely, whatever the producer has done to its
\* live record since.
C8_SnapshotIsolation ==
  \A d \in Domains :
    /\ \A i \in 1..Len(Chan(d)) :
         /\ Chan(d)[i].seq \in 1..Len(log)
         /\ Chan(d)[i].snap = Logged(d, Chan(d)[i].seq)
    /\ held[d] # 0 =>
         /\ held[d] \in 1..Len(log)
         /\ Display(d) = Logged(d, held[d])

\* The producer has processed a second line, changing its live CPU record,
\* while the first line's snapshot is pending and another is on display.
C8_Witness ==
  /\ Len(log) = 2
  /\ \E i \in 1..Len(cpu_chan) : cpu_chan[i].seq = 1 /\ cpu_chan[i].snap # col_cpu
  /\ held.gpu = 1 /\ gpu_metrics # col_gpu

\* The age of a series entry at the instant t.
Age(entry, t) == t - entry[1]

\* C9: retention bound.  At the end of every prune, no retained entry is
\* older than 120 seconds, an entry exactly 120 seconds old is kept (what is
\* removed is a prefix of older entries), and a series whose entries are all
\* older than 120 seconds is pruned to empty.
C9_RetentionBound ==
  w_op = "prune" =>
    LET cut == Len(w_before) - Len(w_history) IN
    /\ cut >= 0
    /\ w_history = SubSeq(w_before, cut + 1, Len(w_before))
    /\ \A i \in 1..Len(w_history) : Age(w_history[i], w_now) <= Retention
    /\ \A i \in 1..Len(w_before) :
         Age(w_before[i], w_now) = Retention => i > cut
    /\ (\A i \in 1..Len(w_before) : Age(w_before[i], w_now) > Retention)
         => w_history = << >>

\* A prune has just removed an older entry and kept one that is exactly 120
\* seconds old.
C9_Witness ==
  /\ w_op = "prune"
  /\ Len(w_history) >= 1 /\ Len(w_history) < Len(w_before)
  /\ Age(w_history[1], w_now) = Retention

\* The sum of the values of a series, taken from the back by index.
RECURSIVE SumUpTo(_, _)
SumUpTo(history, n) ==
  IF n = 0 THEN 0 ELSE history[n][2] + SumUpTo(history, n - 1)

\* C10: average() is the reference mean.  It returns 0.0 for an empty series
\* and otherwise the sum of all retained values over their count, whatever
\* the timestamps, and it leaves the series as it was.
C10_AverageIsMean ==
  w_op = "average" =>
    /\ w_history = w_before
    /\ w_avg.some
    /\ w_avg.val.den # 0
    /\ IF Len(w_before) = 0
         THEN w_avg.val.num = 0
         ELSE w_avg.val.num * Len(w_before)
                = SumUpTo(w_before, Len(w_before)) * w_avg.val.den

\* The average of a series holding 42 and 100, pushed at different
\* instants, has just been taken: 142 / 2.
C10_Witness ==
  /\ w_op = "average"
  /\ Len(w_history) = 2
  /\ w_history[1][2] = 42 /\ w_history[2][2] = 100
  /\ w_history[1][1] # w_history[2][1]
  /\ w_avg.val = [num |-> 142, den |-> 2]

\* ------------------------------------------------------------- parsing
CpuScalars ==
  {"e_cluster_active", "e_cluster_freq_mhz", "p_cluster_active",
   "p_cluster_freq_mhz", "ane_w", "cpu_w", "gpu_w", "package_w"}
GpuScalars == {"freq_mhz", "active"}
NetDiskScalars ==
  {"out_packets_per_sec", "out_bytes_per_sec", "in_packets_per_sec",
   "in_bytes_per_sec", "read_ops_per_sec", "write_ops_per_sec",
   "read_kbytes_per_sec", "write_kbytes_per_sec"}
CpuHistories ==
  {"e_cluster_active_history", "p_cluster_active_history", "ane_w_history"}

\* n is floor(P) for the percent P given in hundredths.
IsFloorOf(n, hundredths) == n * 100 <= hundredths /\ hundredths < n * 100 + 100
\* The CPU record after the parse differs from the one before at most in
\* the fields of the set changed.
CpuFrame(changed) ==
  \A f \in (CpuScalars \cup CpuHistories) \ changed :
    p_cpu[f] = p_before.cpu[f]

\* C11: residency line effect and frame.  After parse_cpu_metrics on a valid
\* residency line with percent P, the active-percent field of the cluster
\* named (E-Cluster or E0-Cluster: e_cluster_active; P-Cluster or
\* P0-Cluster: p_cluster_active) is floor(P) and every other field of the
\* CPU record is as before; for any other cluster name no field changes.
C11_ResidencyEffectAndFrame ==
  (p_pc = "parsed" /\ Last(p_lines).pat = "residency" /\ Last(p_lines).tok1.ok)
  => LET l == Last(p_lines) IN
     CASE l.cluster \in {"E-Cluster", "E0-Cluster"} ->
            /\ IsFloorOf(p_cpu.e_cluster_active, l.tok1.val)
            /\ CpuFrame({"e_cluster_active"})
       [] l.cluster \in {"P-Cluster", "P0-Cluster"} ->
            /\ IsFloorOf(p_cpu.p_cluster_active, l.tok1.val)
            /\ CpuFrame({"p_cluster_active"})
       [] OTHER -> CpuFrame({})

\* "E0-Cluster ... 99.99%" has just been parsed into a record that held
\* 42% at 1500 MHz: the percent is now 99 and the frequency still 1500.
C11_Witness ==
  /\ p_pc = "parsed" /\ Last(p_lines) = LineE0Residency
  /\ p_before.cpu.e_cluster_active = 42
  /\ p_before.cpu.e_cluster_freq_mhz = 1500
  /\ p_cpu.e_cluster_active = 99
  /\ p_cpu.e_cluster_freq_mhz = 1500

\* The pattern table: for each scalar field, the pattern a line must match
\* to set it, the cluster names accepted, the least number of tokens, the
\* capture that carries the value, and whether the value is truncated to an
\* integer percent.
FieldRule(pat, clusters, ntok, tok, floor) ==
  [pat |-> pat, clusters |-> clusters, ntok |-> ntok, tok |-> tok,
   floor |-> floor]
Rule(f) ==
  CASE f = "e_cluster_active" ->
         FieldRule("residency", {"E-Cluster", "E0-Cluster"}, 0, 1, TRUE)
    [] f = "p_cluster_active" ->
         FieldRule("residency", {"P-Cluster", "P0-Cluster"}, 0, 1, TRUE)
    [] f = "e_cluster_freq_mhz" ->
         FieldRule("frequency", {"E-Cluster", "E0-Cluster"}, 0, 1, FALSE)
    [] f = "p_cluster_freq_mhz" ->
         FieldRule("frequency", {"P-Cluster", "P0-Cluster"}, 0, 1, FALSE)
    [] f = "ane_w" -> FieldRule("ane_power", {""}, 3, 1, FALSE)
    [] f = "cpu_w" -> FieldRule("cpu_power", {""}, 3, 1, FALSE)
    [] f = "gpu_w" -> FieldRule("gpu_power", {""}, 3, 1, FALSE)
    [] f = "package_w" -> FieldRule("combined_power", {""}, 8, 1, FALSE)
    [] f = "active" -> FieldRule("gpu_residency", {""}, 0, 1, FALSE)
    [] f = "freq_mhz" -> FieldRule("gpu_frequency", {""}, 0, 1, FALSE)
    [] f = "out_packets_per_sec" -> FieldRule("out", {""}, 0, 1, FALSE)
    [] f = "out_bytes_per_sec" -> FieldRule("out", {""}, 0, 2, FALSE)
    [] f = "in_packets_per_sec" -> FieldRule("in", {""}, 0, 1, FALSE)
    [] f = "in_bytes_per_sec" -> FieldRule("in", {""}, 0, 2, FALSE)
    [] f = "read_ops_per_sec" -> FieldRule("read", {""}, 0, 1, FALSE)
    [] f = "read_kbytes_per_sec" -> FieldRule("read", {""}, 0, 2, FALSE)
    [] f = "write_ops_per_sec" -> FieldRule("write", {""}, 0, 1, FALSE)
    [] f = "write_kbytes_per_sec" -> FieldRule("write", {""}, 0, 2, FALSE)

\* The line matches the pattern of field f.
Matches(l, f) ==
  /\ l.pat = Rule(f).pat
  /\ l.cluster \in Rule(f).clusters
  /\ l.ntok >= Rule(f).ntok
\* The value the matching line carries for f (0 for a text that is no number).
Carried(l, f) ==
  LET t == IF Rule(f).tok = 1 THEN l.tok1 ELSE l.tok2
      v == IF t.ok THEN t.val ELSE 0
  IN IF Rule(f).floor THEN CHOOSE n \in 0..100 : IsFloorOf(n, v) ELSE v
\* The value carried by the last line of the sequence that matches the
\* pattern of f, or 0 if none does.
RECURSIVE Sticky(_, _)
Sticky(lines, f) ==
  IF lines = << >> THEN 0
  ELSE IF Matches(Last(lines), f) THEN Carried(Last(lines), f)
       ELSE Sticky(SubSeq(lines, 1, Len(lines) - 1), f)

\* C12: sticky fields over any line sequence.  After any sequence of lines,
\* each scalar field of each record equals the value carried by the last
\* line that matched the field's pattern, or 0 if no line matched; and a
\* line matching no pattern changes no scalar field.
C12_StickyFields ==
  /\ \A f \in CpuScalars : p_cpu[f] = Sticky(p_lines, f)
  /\ \A f \in GpuScalars : p_gpu[f] = Sticky(p_lines, f)
  /\ \A f \in NetDiskScalars : p_netdisk[f] = Sticky(p_lines, f)
  /\ (p_lines # << >> /\ Last(p_lines).pat = "none") =>
        /\ \A f \in CpuScalars : p_cpu[f] = p_before.cpu[f]
        /\ \A f \in GpuScalars : p_gpu[f] = p_before.gpu[f]
        /\ \A f \in NetDiskScalars : p_netdisk[f] = p_before.netdisk[f]

\* The three-line scenario: E-residency 42.50, E-frequency 1500,
\* P-residency 10.00 leaves 42 % at 1500 MHz, 10 % at 0 MHz.
C12_Witness ==
  /\ p_pc = "read"
  /\ p_lines = <<LineEResidency, LineEFrequency, LinePResidency>>
  /\ p_cpu.e_cluster_active = 42 /\ p_cpu.e_cluster_freq_mhz = 1500
  /\ p_cpu.p_cluster_active = 10 /\ p_cpu.p_cluster_freq_mhz = 0

\* v (hundredths of a percent) is clamp(w * 100 / 8, 0, 100) for the power
\* of m milliwatts, w = m / 1000 watts: w * 100 / 8 = m / 80 percent.
IsAneUtilOf(v, m) ==
  IF m <= 0 THEN v = 0
  ELSE IF m >= 80 * 100 THEN v = 100 * 100
  ELSE 80 * v = 100 * m

C14_MemoryUsedPercent ==
  (q_out.some /\ q_in.ok) =>
    LET num == (q_in.used + q_in.swap_used) * 100 * 100
        den == q_in.total + q_in.swap_total
        p == q_out.val.used_percent
    IN IF den = 0 THEN p = 0
       ELSE p * den <= num /\ num < (p + 1) * den

\* 1 unit used of 3 and 1 unit of swap used of 1: 2 / 4 * 100 = 50 %.
C14_Witness ==
  /\ q_out.some
  /\ q_in = [ok |-> TRUE, total |-> 3, used |-> 1, swap_total |-> 1,
              swap_used |-> 1]
  /\ q_out.val.used_percent = 5000

\* ------------------------------------------------------------- display
\* What the render of this step draws.
Drawn == DrawUi(cpu_metrics', gpu_metrics', memory_metrics'.val)
Charts == {"e_cpu", "p_cpu", "gpu", "ane", "mem"}

\* C15: displayed averages use the live window.  At every render, every
\* sample that contributes to a displayed Avg (and every entry of a plotted
\* series) is at most 120 seconds old at the time of the render.
C15_AveragesUseLiveWindow ==
  [][ (DecideStep /\ RenderHappens) =>
        \A c \in Charts : \A i \in 1..Len(Drawn[c].series) :
          Age(Drawn[c].series[i], now) <= Retention ]_vars

\* The sampler has gone quiet after its first line, whose snapshot was
\* rendered at once; 120.25 s later the timer causes a render, and the
\* E-cluster chart still averages the sample of that first line.
C15_StaleSampleDrawn ==
  /\ main_pc = "poll" /\ held.cpu = 1 /\ Len(log) = 1
  /\ last_timer_render = Some(now)
  /\ Len(memory_metrics.val.used_percent_history) = 1
  /\ LET chart == DrawUi(cpu_metrics, gpu_metrics, memory_metrics.val).e_cpu IN
       /\ Len(chart.series) = 1
       /\ Age(chart.series[1], now) > Retention
       /\ chart.avg = [num |-> chart.series[1][2], den |-> 1]

\* ------------------------------------------------------------ sampler exit
\* A step of the main thread's loop is possible.
MainLoopStep == PollContinue \/ DrainCpu \/ DrainGpu \/ DrainNetdisk \/ Decide

\* C16: sampler exit is silent and final.  Once the sampler's output has
\* reached end-of-stream the producer is out of its loop for good, the
\* sampler is not started again and nothing more is published; the step
\* that ends the producer changes nothing the main thread can see; the main
\* thread can always take the next step of its loop; and once the channel
\* of a domain is empty the display of that domain is (and so stays) the
\* last snapshot published, or the initial record if there was none.
C16_SamplerExitSilentFinal ==
  /\ [](child = "exited" => col_pc = "eof")
  /\ [][ child = "exited" =>
           /\ child' = "exited" /\ col_pc' = "eof"
           /\ sent' = sent /\ log' = log
           /\ \A d \in Domains : Len(Chan(d)') <= Len(Chan(d)) ]_vars
  /\ [][ (child = "running" /\ child' = "exited") =>
           UNCHANGED <<running, chanVars, mainVars, sent>> ]_vars
  /\ [](child = "exited" /\ InMainLoop => ENABLED MainLoopStep)
  /\ [](child = "exited" =>
          \A d \in Domains :
            Chan(d) = << >> =>
              Display(d) = IF sent[d] = << >> THEN InitialRecord(d)
                           ELSE Last(sent[d]).snap)

\* The sampler exited after one line; later the consumer, having drained
\* that line's snapshots, rendered on the timer; the display is still that
\* snapshot and RunSignal is still true.
C16_Witness ==
  /\ child = "exited" /\ col_pc = "eof" /\ running
  /\ main_pc = "poll"
  /\ Len(log) = 1
  /\ \A d \in Domains : Chan(d) = << >> /\ Display(d) = Last(sent[d]).snap
  /\ last_timer_render = Some(now)
  /\ now > Last(cpu_metrics.e_cluster_active_history)[1]

\* ------------------------------------------------------------ producer loop
\* C17: a line read error is skipped.  The step in which reading a line
\* yields an error changes no record of the producer, appends to no series,
\* publishes nothing, does not come to the RunSignal check, and leaves the
\* producer at the head of its loop with the sampler running, ready for the
\* next line.
C17_ReadErrorSkipped ==
  [][ read_errors' # read_errors =>
        /\ col_pc = "read" /\ col_pc' = "read"
        /\ child' = "running"
        /\ UNCHANGED <<colRecVars, chanVars, sent, log, running, mainVars>>
    ]_vars

\* The first item read was an error; the second, a line, has been processed.
C17_Witness ==
  /\ col_pc = "send_cpu" /\ lineno = 2 /\ read_errors = 1 /\ Len(log) = 1

\* The series after an append of value at the instant t: its last entry is
\* (t, value), and the entries before it are a suffix of the series before.
OneAppended(before, after, value, t) ==
  /\ after # << >>
  /\ Last(after) = <<t, value>>
  /\ Len(after) <= Len(before) + 1
  /\ LET kept == Len(after) - 1 IN
       SubSeq(after, 1, kept)
         = SubSeq(before, Len(before) - kept + 1, Len(before))
  /\ \A i \in 1..Len(after) : Age(after[i], t) <= Retention
  /\ \A i \in 1..(Len(before) - Len(after) + 1) :
       Age(before[i], t) > Retention

\* The producer sends on channel d in this step.
Sends(d) == sent'[d] # sent[d]
\* One message is sent on d: a copy of the producer's record as it is,
\* numbered with the line just processed.
SendsOne(d, rec) ==
  /\ Len(sent'[d]) = Len(sent[d]) + 1
  /\ SubSeq(sent'[d], 1, Len(sent[d])) = sent[d]
  /\ Last(sent'[d]) = [snap |-> rec, seq |-> Len(log)]
  /\ Chan(d)' = Append(Chan(d), Last(sent'[d]))

\* C18: one append and one publish per processed line.  Every line that
\* passes the RunSignal check, matching a pattern or not, appends exactly
\* one entry, the current sticky value, to each of the E-cluster, P-cluster,
\* ANE and GPU series and prunes each; then one snapshot of the records as
\* they are after the appends is sent on the CPU, the GPU and the NetDisk
\* channel, in that order; when the producer is back at the head of its
\* loop every processed line has exactly one snapshot on each channel.
C18_OneAppendOnePublish ==
  /\ [][ log' # log =>
           /\ col_pc = "check" /\ running /\ col_pc' = "send_cpu"
           /\ Len(log') = Len(log) + 1
           /\ OneAppended(col_cpu.e_cluster_active_history,
                          col_cpu'.e_cluster_active_history,
                          col_cpu'.e_cluster_active, now)
           /\ OneAppended(col_cpu.p_cluster_active_history,
                          col_cpu'.p_cluster_active_history,
                          col_cpu'.p_cluster_active, now)
           /\ \E v \in 0..(100 * 100) :
                /\ IsAneUtilOf(v, col_cpu'.ane_w)
                /\ OneAppended(col_cpu.ane_w_history,
                               col_cpu'.ane_w_history, v, now)
           /\ OneAppended(col_gpu.active_history, col_gpu'.active_history,
                          col_gpu'.active, now)
           /\ UNCHANGED <<sent, chanVars>> ]_vars
  /\ [][ /\ Sends("cpu") =>
             /\ col_pc = "send_cpu" /\ col_pc' = "send_gpu"
             /\ SendsOne("cpu", col_cpu)
             /\ UNCHANGED <<colRecVars, log, gpu_chan, netdisk_chan>>
         /\ Sends("gpu") =>
             /\ col_pc = "send_gpu" /\ col_pc' = "send_netdisk"
             /\ SendsOne("gpu", col_gpu)
             /\ UNCHANGED <<colRecVars, log, cpu_chan, netdisk_chan>>
         /\ Sends("netdisk") =>
             /\ col_pc = "send_netdisk" /\ col_pc' = "read"
             /\ SendsOne("netdisk", col_netdisk)
             /\ UNCHANGED <<colRecVars, log, cpu_chan, gpu_chan>> ]_vars
  /\ [](/\ Len(sent.cpu) <= Len(log)
        /\ Len(sent.gpu) <= Len(sent.cpu)
        /\ Len(sent.netdisk) <= Len(sent.gpu)
        /\ Len(log) <= Len(sent.netdisk) + 1
        /\ \A d \in Domains : \A i \in 1..Len(sent[d]) : sent[d][i].seq = i
        /\ col_pc \in {"read", "check", "eof", "stopped"} =>
             \A d \in Domains : Len(sent[d]) = Len(log))

\* "out: ..." was processed after an E-residency line: it matches no CPU or
\* GPU pattern, yet the E-cluster series got its second entry of 42 and the
\* GPU series its second 0, and each channel was sent its second snapshot.
C18_Witness ==
  /\ col_pc = "read" /\ line = LineOut /\ Len(log) = 2
  /\ Len(col_cpu.e_cluster_active_history) = 2
  /\ col_cpu.e_cluster_active_history[1][2] = 42
  /\ col_cpu.e_cluster_active_history[2][2] = 42
  /\ Len(col_gpu.active_history) = 2
  /\ \A d \in Domains : Len(sent[d]) = 2

\* ------------------------------------------------------------ time order
\* Timestamps do not decrease from front to back.
TimeOrdered(history) ==
  \A i, j \in 1..Len(history) : i <= j => history[i][1] <= history[j][1]
\* The entries of the series that are at most 120 seconds old at t, in order.
Fresh(history, t) ==
  SelectSeq(history, LAMBDA entry : Age(entry, t) <= Retention)

\* C19: front-eviction is sufficient.  The series is time-ordered in every
\* reachable state; a prune removes entries from the front only (what is
\* retained is a suffix of the series before), never one that is at most
\* 120 seconds old, and leaves exactly the entries that are at most 120
\* seconds old.
C19_FrontEvictionSufficient ==
  /\ TimeOrdered(w_history)
  /\ w_op = "prune" =>
       LET cut == Len(w_before) - Len(w_history) IN
       /\ cut >= 0
       /\ w_history = SubSeq(w_before, cut + 1, Len(w_before))
       /\ \A i \in 1..cut : Age(w_before[i], w_now) > Retention
       /\ w_history = Fresh(w_before, w_now)

\* Three entries pushed at three different instants; the prune has removed
\* the two at the front and kept the youngest.
C19_Witness ==
  /\ w_op = "prune"
  /\ Len(w_before) = 3 /\ Len(w_history) = 1
  /\ w_before[1][1] < w_before[2][1] /\ w_before[2][1] < w_before[3][1]
  /\ Age(w_history[1], w_now) < Retention

\* ------------------------------------------------------------ memory window
\* The memory series carried over from the previous render.
Carried_Memory ==
  IF memory_metrics.some THEN memory_metrics.val.used_percent_history
  ELSE << >>
\* p is the used-percent (hundredths) the answer q of the queries gives: 0
\* when a query failed.
IsUsedPercentOf(p, q) ==
  LET num == (q.used + q.swap_used) * 100 * 100
      den == q.total + q.swap_total
  IN IF ~q.ok \/ den = 0 THEN p = 0
     ELSE p * den <= num /\ num < (p + 1) * den
\* The render condition of the tick that ends in this step.
RenderDue == updated \/ ShouldNotify(last_event, now)

\* C20: the memory window is consumer-side and per render.  The memory
\* metrics change only in the step that ends a consumer tick, and do so
\* exactly when the tick renders; the render recomputes them from the
\* answer of the external queries (0 when a query failed) and its series is
\* the series of the previous render (empty on the first) with exactly one
\* sample, the new used-percent at the instant of the render, appended and
\* nothing but entries older than 120 seconds dropped; no producer step
\* changes the memory metrics.
C20_MemoryWindowPerRender ==
  /\ [][ DecideStep => (RenderHappens <=> RenderDue) ]_vars
  /\ [][ RenderHappens =>
           /\ DecideStep
           /\ memory_metrics'.some
           /\ \E q \in MemQueries :
                IsUsedPercentOf(memory_metrics'.val.used_percent, q)
           /\ memory_metrics'.val.used_percent_history
                = Fresh(Append(Carried_Memory,
                               <<now, memory_metrics'.val.used_percent>>), now)
           /\ OneAppended(Carried_Memory,
                          memory_metrics'.val.used_percent_history,
                          memory_metrics'.val.used_percent, now) ]_vars
  /\ [][ (query_failures' # query_failures) =>
           /\ memory_metrics'.val.used_percent = 0
           /\ Last(memory_metrics'.val.used_percent_history) = <<now, 0>> ]_vars
  /\ [][ (col_pc' # col_pc \/ log' # log \/ sent' # sent
            \/ lineno' # lineno \/ child' # child)
           => memory_metrics' = memory_metrics ]_vars

\* A render whose memory query succeeded was followed, a quarter of a second
\* later, by one whose query failed: the series holds the 50 % of the first
\* render and the 0 of the second.
C20_Witness ==
  /\ main_pc = "poll" /\ memory_metrics.some /\ query_failures = 1
  /\ memory_metrics.val.used_percent = 0
  /\ memory_metrics.val.used_percent_history = <<<<0, 5000>>, <<250, 0>>>>

\* ------------------------------------------------------ parse failures
\* The capture of line l that carries the value of field f.
TokenOf(l, f) == IF Rule(f).tok = 1 THEN l.tok1 ELSE l.tok2
\* Field f of the record rec after the last line, given its value before:
\* 0 when the line addresses f with a text that is no number, the parsed
\* value when it addresses f with a number, the prior value otherwise.
FieldAfterLine(l, f, after, before) ==
  IF Matches(l, f)
    THEN IF TokenOf(l, f).ok THEN after = Carried(l, f) ELSE after = 0
    ELSE after = before
\* The four series have one entry per line processed so far (the instants
\* of the model are far inside one retention window).
OneEntryPerLine(n) ==
  /\ Len(p_cpu.e_cluster_active_history) = n
  /\ Len(p_cpu.p_cluster_active_history) = n
  /\ Len(p_cpu.ane_w_history) = n
  /\ Len(p_gpu.active_history) = n

\* C21: a numeric parse failure is local.  When a line matches a pattern but
\* a captured text is no number, exactly the field that text is for becomes
\* 0, the other field the line writes gets its parsed value, every field the
\* line does not address keeps its value; and the line is appended and
\* published like any other: once the loop body is through, every line,
\* whatever its tokens, has one entry in each series and one publication.
C21_ParseFailureLocal ==
  /\ (p_lines # << >>) =>
       LET l == Last(p_lines) IN
       /\ \A f \in CpuScalars :
            FieldAfterLine(l, f, p_cpu[f], p_before.cpu[f])
       /\ \A f \in GpuScalars :
            FieldAfterLine(l, f, p_gpu[f], p_before.gpu[f])
       /\ \A f \in NetDiskScalars :
            FieldAfterLine(l, f, p_netdisk[f], p_before.netdisk[f])
  /\ p_pc = "read" => (OneEntryPerLine(Len(p_lines)) /\ p_sent = Len(p_lines))
  /\ p_pc = "parsed" =>
       (OneEntryPerLine(Len(p_lines) - 1) /\ p_sent = Len(p_lines) - 1)
  /\ p_pc = "appended" =>
       (OneEntryPerLine(Len(p_lines)) /\ p_sent = Len(p_lines) - 1)

\* After "ANE Power: 500 mW" and a write line whose KBytes text is "1.2.3",
\* "ANE Power: n/a" was processed: the ANE power went from 0.5 W to 0, the
\* write line left 7 ops/s beside 0 KBytes/s, and all three lines were
\* appended and published.
C21_Witness ==
  /\ p_pc = "read"
  /\ p_lines = <<LineAnePower, LineWrite, LineAnePowerBad>>
  /\ p_before.cpu.ane_w = 500 /\ p_cpu.ane_w = 0
  /\ p_netdisk.write_ops_per_sec = 700 /\ p_netdisk.write_kbytes_per_sec = 0
  /\ Last(p_cpu.ane_w_history) = <<3, 0>>
  /\ p_sent = 3

\* ------------------------------------------------------------ channels
\* C22: no backpressure.  Whenever the producer is at a send, the send can
\* be taken, however many snapshots are pending; a send adds exactly one
\* pending snapshot and drops none; so what is pending on a channel is
\* always everything sent on it that the consumer has not yet received, and
\* k lines processed without a drain leave k more pending on each channel.
C22_NoBackpressure ==
  /\ [](Alive =>
          /\ col_pc = "send_cpu" => ENABLED SendCpu
          /\ col_pc = "send_gpu" => ENABLED SendGpu
          /\ col_pc = "send_netdisk" => ENABLED SendNetdisk)
  /\ [][ \A d \in Domains :
           Sends(d) => Chan(d)' = Append(Chan(d), Last(sent'[d])) ]_vars
  /\ [](\A d \in Domains :
          Chan(d) = SubSeq(sent[d], held[d] + 1, Len(sent[d])))

\* The producer has processed two lines while the consumer drained nothing:
\* two snapshots are pending on each channel.
C22_Witness ==
  /\ Len(log) = 2 /\ col_pc = "read"
  /\ \A d \in Domains : held[d] = 0 /\ Len(Chan(d)) = 2

\* ------------------------------------------------------------ domains
\* The displays are as the last render drew them: the tick that ended at
\* this instant rendered, and the next has not begun.
JustRendered ==
  /\ main_pc = "poll" /\ memory_metrics.some
  /\ Last(memory_metrics.val.used_percent_history)[1] = now
  /\ \A d \in Domains : drained[d] = 0

\* C23: no cross-domain synchronization.  The three streams are
\* independent: a send publishes on one channel only, a receive takes from
\* one channel and changes the display of that domain only, and what a
\* render draws for a domain is the record of whatever line that domain's
\* last received snapshot is of (or the initial record); nothing makes the
\* three lines the same, and the witnesses are renders at which they differ.
C23_NoCrossDomainSync ==
  /\ [][ \A d \in Domains : Sends(d) =>
           \A e \in Domains \ {d} : ~Sends(e) /\ Chan(e)' = Chan(e) ]_vars
  /\ [][ \A d \in Domains : held'[d] # held[d] =>
           /\ Chan(d) # << >> /\ held'[d] = Head(Chan(d)).seq
           /\ \A e \in Domains \ {d} :
                /\ held'[e] = held[e]
                /\ Chan(e)' = Chan(e)
                /\ Display(e)' = Display(e) ]_vars
  /\ [][ (DecideStep /\ RenderHappens) =>
           \A d \in Domains :
             /\ held[d] \in 0..Len(log)
             /\ Display(d) = IF held[d] = 0 THEN InitialRecord(d)
                              ELSE Logged(d, held[d]) ]_vars

\* A render at which the CPU snapshot is of the second line and the GPU
\* snapshot of the first (CPU newer than GPU), both with different
\* contents than the other line's.
C23_Witness ==
  /\ JustRendered
  /\ held.cpu = 2 /\ held.gpu = 1
  /\ log[1].cpu # log[2].cpu /\ log[1].gpu # log[2].gpu

\* The other direction: a render at which the GPU snapshot is of the second
\* line and the CPU snapshot of the first (GPU newer than CPU).
GpuNewerThanCpuRendered ==
  /\ JustRendered
  /\ held.cpu = 1 /\ held.gpu = 2

\* What C23 denies: at every render the three displays are of the same line.
SameLineRendered ==
  JustRendered => (held.cpu = held.gpu /\ held.gpu = held.netdisk)

\* ------------------------------------------------------------ termination
\* The main thread is in one of its three drain loops.
InDrain == main_pc \in {"drain_cpu", "drain_gpu", "drain_netdisk"}
\* The domain whose channel the main thread is draining.
DrainDomain ==
  CASE main_pc = "drain_cpu" -> "cpu" [] main_pc = "drain_gpu" -> "gpu"
    [] main_pc = "drain_netdisk" -> "netdisk"

====
